---- MODULE Spec2Model ----
(***************************************************************************)
(* Model of degiro-steuer-scrape.py: the pipeline of main() over the text  *)
(* of one annual report.  A text is a sequence of symbols.  A symbol is a  *)
(* single character, or one of the section anchor phrases, which the       *)
(* regular expressions of the program match literally and which occur in   *)
(* a text only as whole phrases.  Amounts are exact decimals held as       *)
(* integers in hundredths (the program holds them as binary floats).       *)
(***************************************************************************)
EXTENDS Integers, Sequences, FiniteSets, TLC

VARIABLES
    raw_text,               \* main: the text of the document
    pc,                     \* the statement of main that runs next
    outcome,                \* how main ended, as its caller sees it
    exc,                    \* the exception main raised
    log,                    \* the records logged so far
    transaktionsgebuehren,  \* main: the fee
    div_result,             \* what extract_dividend_table returned
    real_result,            \* what extract_realized_profits_and_fees returned
    tax_rows,               \* main: the report lines
    sinkCalls,              \* calls of save_to_excel
    fileWritten             \* the output file exists

vars == <<raw_text, pc, outcome, exc, log, transaktionsgebuehren, div_result,
          real_result, tax_rows, sinkCalls, fileWritten>>

-----------------------------------------------------------------------------
(* Bounds of the model *)

\* most record lines of a dividend section (before its trailing total line)
MaxDivRows == 2

\* most lines of a realized-gains section
MaxRealRows == 2

-----------------------------------------------------------------------------
(* Symbols and character classes of the regular expressions *)

\* the anchor phrases; ue stands for u-umlaut
DIV_START == "Land Bruttodividende Quellensteuer Nettodividende"

DIV_END == "Kuponuebersicht"

REAL_START == "Realisierte Gewinne/Verluste je Produkt"

REAL_END == "Alle Dividenden und Kupons"

FEE_LABEL == "Transaktionsgebuehren"

DOMESTIC == <<"D", "E">>

NL == "\n"

SP == " "

Digits == {"0", "1", "2", "3", "4", "5", "6", "7", "8", "9"}

Upper == {"A", "B", "C", "D", "E", "F", "G", "H", "I", "J", "K", "L", "M",
          "N", "O", "P", "Q", "R", "S", "T", "U", "V", "W", "X", "Y", "Z"}

Lower == {"a", "b", "c", "d", "e", "f", "g", "h", "i", "j", "k", "l", "m",
          "n", "o", "p", "q", "r", "s", "t", "u", "v", "w", "x", "y", "z"}

\* \s
SpaceChars == {SP, NL}

\* [\d,.]
FeeNumChars == Digits \cup {",", "."}

\* [\-0-9,\.]
NumChars == Digits \cup {",", ".", "-"}

\* [A-Z0-9]
IsinChars == Upper \cup Digits

\* [A-Za-z0-9\s&\.\-]
ProductChars == Upper \cup Lower \cup Digits \cup {SP, NL, "&", ".", "-"}

-----------------------------------------------------------------------------
(* Sequence helpers *)

Max(S) == CHOOSE x \in S : \A y \in S : y <= x

Min(S) == CHOOSE x \in S : \A y \in S : x <= y

\* s[a..] as Python slices it
From(s, a) == SubSeq(s, a, Len(s))

\* the last index e >= p - 1 such that every symbol of s[p..e] is in cls
RECURSIVE RunEnd(_, _, _)
RunEnd(s, p, cls) ==
    IF p <= Len(s) /\ s[p] \in cls THEN RunEnd(s, p + 1, cls) ELSE p - 1

\* is lit a substring of s at position p
LitAt(s, p, lit) ==
    /\ p + Len(lit) - 1 <= Len(s)
    /\ \A k \in 1..Len(lit) : s[p + k - 1] = lit[k]

\* str.strip()
RECURSIVE LStrip(_)
LStrip(s) == IF s # <<>> /\ Head(s) \in SpaceChars THEN LStrip(Tail(s)) ELSE s

RECURSIVE RStrip(_)
RStrip(s) ==
    IF s # <<>> /\ s[Len(s)] \in SpaceChars THEN RStrip(SubSeq(s, 1, Len(s) - 1)) ELSE s

Strip(s) == RStrip(LStrip(s))

\* str.split("\n"): the pieces between newlines, "" gives [""]
RECURSIVE SplitLines(_)
SplitLines(s) ==
    LET nls == {i \in 1..Len(s) : s[i] = NL}
    IN  IF nls = {} THEN <<s>>
        ELSE <<SubSeq(s, 1, Min(nls) - 1)>> \o SplitLines(From(s, Min(nls) + 1))

\* re.split(r'\s+', line): the pieces between runs of whitespace; leading or
\* trailing whitespace gives an empty first or last piece
RECURSIVE ReSplitWs(_)
ReSplitWs(s) ==
    LET ws == {i \in 1..Len(s) : s[i] \in SpaceChars}
    IN  IF ws = {} THEN <<s>>
        ELSE LET a == Min(ws)
                 b == RunEnd(s, a, SpaceChars)
             IN  <<SubSeq(s, 1, a - 1)>> \o ReSplitWs(From(s, b + 1))

\* str.replace(',', '.')
ReplaceComma(s) == [i \in 1..Len(s) |-> IF s[i] = "," THEN "." ELSE s[i]]

-----------------------------------------------------------------------------
(* float(): the decimal literals the extractors can meet.  The result is    *)
(* [ok |-> FALSE] where float() raises ValueError, else the value in       *)
(* hundredths; texts of the model carry at most two fraction digits.       *)

DigitSeq == <<"0", "1", "2", "3", "4", "5", "6", "7", "8", "9">>

DigitVal(c) == (CHOOSE i \in 1..Len(DigitSeq) : DigitSeq[i] = c) - 1

RECURSIVE IntVal(_)
IntVal(ds) ==
    IF ds = <<>> THEN 0
    ELSE 10 * IntVal(SubSeq(ds, 1, Len(ds) - 1)) + DigitVal(ds[Len(ds)])

FracVal(fs) ==
    IF Len(fs) = 0 THEN 0
    ELSE IF Len(fs) = 1 THEN 10 * DigitVal(fs[1])
    ELSE 10 * DigitVal(fs[1]) + DigitVal(fs[2])

ParseFloat(s) ==
    LET neg  == s # <<>> /\ Head(s) = "-"
        body == IF neg THEN Tail(s) ELSE s
        dots == {i \in 1..Len(body) : body[i] = "."}
        ip   == IF dots = {} THEN body ELSE SubSeq(body, 1, Min(dots) - 1)
        fp   == IF dots = {} THEN <<>> ELSE From(body, Min(dots) + 1)
        ok   == /\ Cardinality(dots) <= 1
                /\ \A i \in 1..Len(ip) : ip[i] \in Digits
                /\ \A i \in 1..Len(fp) : fp[i] \in Digits
                /\ Len(ip) + Len(fp) >= 1
        mag  == 100 * IntVal(ip) + FracVal(fp)
    IN  IF ok THEN [ok |-> TRUE, v |-> IF neg THEN 0 - mag ELSE mag]
        ELSE [ok |-> FALSE, v |-> 0]

-----------------------------------------------------------------------------
(* extract_transaction_fee *)

\* the end of the group ([\d,.]+) of a match whose group starts at p: the
\* longest run that \s*EUR follows (0: none)
FeeNumEnd(text, p) ==
    LET good == {e \in p..RunEnd(text, p, FeeNumChars) :
                    LitAt(text, RunEnd(text, e + 1, SpaceChars) + 1, <<"E", "U", "R">>)}
    IN  IF good = {} THEN 0 ELSE Max(good)

\* where the group of a match can start when the label is at i: .*? passes
\* over no newline
FeeStarts(text, i) ==
    {p \in (i + 1)..Len(text) :
        /\ \A q \in (i + 1)..(p - 1) : text[q] # NL
        /\ FeeNumEnd(text, p) # 0}

\* re.search(r"Transaktionsgebuehren.*?([\d,.]+)\s*EUR", raw_text)
FeeSearch(text) ==
    LET labels == {i \in 1..Len(text) : text[i] = FEE_LABEL /\ FeeStarts(text, i) # {}}
    IN  IF labels = {} THEN [found |-> FALSE, group |-> <<>>]
        ELSE LET p == Min(FeeStarts(text, Min(labels)))
             IN  [found |-> TRUE, group |-> SubSeq(text, p, FeeNumEnd(text, p))]

Abs(x) == IF x < 0 THEN 0 - x ELSE x

extract_transaction_fee(text) ==
    LET m == FeeSearch(text)
        f == ParseFloat(ReplaceComma(m.group))
    IN  IF ~m.found THEN [raised |-> FALSE, fee |-> 0]
        ELSE IF ~f.ok THEN [raised |-> TRUE, fee |-> 0]
        ELSE [raised |-> FALSE, fee |-> Abs(f.v)]

-----------------------------------------------------------------------------
(* extract_dividend_table *)

\* group(1) of re.search(DIV_START \n (.*?) \n DIV_END, text, re.S)
DividendSearch(text) ==
    LET ends(i) == {j \in (i + 2)..(Len(text) - 1) : text[j] = NL /\ text[j + 1] = DIV_END}
        starts  == {i \in 1..(Len(text) - 1) :
                       text[i] = DIV_START /\ text[i + 1] = NL /\ ends(i) # {}}
    IN  IF starts = {} THEN [found |-> FALSE, group |-> <<>>]
        ELSE LET i == Min(starts)
             IN  [found |-> TRUE, group |-> SubSeq(text, i + 2, Min(ends(i)) - 1)]

\* divi_lines[:-1], each split on runs of whitespace
DiviData(table_text) ==
    LET divi_lines == SplitLines(table_text)
    IN  [k \in 1..(Len(divi_lines) - 1) |-> ReSplitWs(divi_lines[k])]

\* the number of columns pandas finds in a list of rows: the longest row
DataWidth(data) == Max({Len(data[k]) : k \in 1..Len(data)})

\* pd.DataFrame(rows, columns=[4 names]) accepts rows whose longest has four
\* pieces, and fills the shorter ones with None
FrameAccepts(data) == data = <<>> \/ DataWidth(data) = 4

\* a cell of a numeric column after .str.replace(',', '.').astype(float):
\* None becomes NaN
FloatCell(row, k) ==
    IF k > Len(row) THEN [ok |-> TRUE, nan |-> TRUE, v |-> 0]
    ELSE LET f == ParseFloat(ReplaceComma(row[k]))
         IN  [ok |-> f.ok, nan |-> FALSE, v |-> f.v]

\* a row of dividend_df (the column Steuersatz, a quotient of two of the
\* others that nothing reads, is left out)
DividendRow(row) ==
    [Land            |-> row[1],
     Bruttodividende |-> FloatCell(row, 2),
     Quellensteuer   |-> FloatCell(row, 3),
     Nettodividende  |-> FloatCell(row, 4)]

\* Series.sum() of the cells picked by keep: NaN is skipped
RECURSIVE SumCells(_, _, _)
SumCells(df, col, keep) ==
    IF df = <<>> THEN 0
    ELSE LET r == Head(df)
         IN  (IF r \in keep /\ ~r[col].nan THEN r[col].v ELSE 0)
             + SumCells(Tail(df), col, keep)

Rows(df) == {df[k] : k \in 1..Len(df)}

IsDomestic(r) == r.Land = DOMESTIC

\* the mask of the foreign records left out
IsForeign_Unmasked(r) == r.Land = r.Land

IsForeign(r) == r.Land # DOMESTIC

NoDividends ==
    [ok |-> FALSE, df |-> <<>>, dividend_sum |-> 0, dividend_sum_de |-> 0,
     dividend_sum_ausl |-> 0, logged |-> "error"]

extract_dividend_table(text) ==
    LET m    == DividendSearch(text)
        data == DiviData(Strip(m.group))
        df   == [k \in 1..Len(data) |-> DividendRow(data[k])]
        parsed == \A k \in 1..Len(df) :
                     /\ df[k].Bruttodividende.ok
                     /\ df[k].Quellensteuer.ok
                     /\ df[k].Nettodividende.ok
    IN  IF ~m.found THEN [NoDividends EXCEPT !.logged = "warning"]
        ELSE IF ~FrameAccepts(data) THEN NoDividends
        ELSE IF ~parsed THEN NoDividends
        ELSE [ok |-> TRUE, df |-> df,
              dividend_sum      |-> SumCells(df, "Bruttodividende", Rows(df)),
              dividend_sum_de   |-> SumCells(df, "Bruttodividende",
                                             {r \in Rows(df) : IsDomestic(r)}),
              dividend_sum_ausl |-> SumCells(df, "Bruttodividende",
                                             {r \in Rows(df) : IsForeign(r)}),
              logged |-> "none"]

-----------------------------------------------------------------------------
(* extract_realized_profits_and_fees *)

\* group(2) of re.search(REAL_START (.*?) REAL_END, raw_text, re.DOTALL)
SectionSearch(text) ==
    LET ends(i) == {j \in (i + 1)..Len(text) : text[j] = REAL_END}
        starts  == {i \in 1..Len(text) : text[i] = REAL_START /\ ends(i) # {}}
    IN  IF starts = {} THEN [found |-> FALSE, group |-> <<>>]
        ELSE LET i == Min(starts)
             IN  [found |-> TRUE, group |-> SubSeq(text, i + 1, Min(ends(i)) - 1)]

\* table_pattern: seven greedy runs, the 1st, 3rd, 5th and 7th captured
TablePattern ==
    <<ProductChars, SpaceChars, IsinChars, SpaceChars, NumChars, SpaceChars, NumChars>>

\* a match of the runs k.. of table_pattern at p, as the regex engine finds it
\* (each run as long as the rest of the pattern allows): the ends of the
\* runs, or <<>> when there is none
RECURSIVE MatchFrom(_, _, _)
MatchFrom(s, p, k) ==
    LET r == RunEnd(s, p, TablePattern[k])
    IN  IF r < p THEN <<>>
        ELSE IF k = Len(TablePattern) THEN <<r>>
        ELSE LET good == {e \in p..r : MatchFrom(s, e + 1, k + 1) # <<>>}
             IN  IF good = {} THEN <<>>
                 ELSE <<Max(good)>> \o MatchFrom(s, Max(good) + 1, k + 1)

\* re.findall(table_pattern, s) from position p on: the groups of the
\* leftmost match, then those of the text after it
RECURSIVE FindAll(_, _)
FindAll(s, p) ==
    IF p > Len(s) THEN <<>>
    ELSE LET m == MatchFrom(s, p, 1)
         IN  IF m = <<>> THEN FindAll(s, p + 1)
             ELSE <<  <<SubSeq(s, p, m[1]),
                        SubSeq(s, m[2] + 1, m[3]),
                        SubSeq(s, m[4] + 1, m[5]),
                        SubSeq(s, m[6] + 1, m[7])>>  >> \o FindAll(s, m[7] + 1)

\* isin[:2]
Prefix2(isin) == SubSeq(isin, 1, IF Len(isin) < 2 THEN Len(isin) ELSE 2)

\* one entry of data, with its numeric columns converted and G/V added
ProfitRow(row) ==
    LET isin == Strip(row[2])
        gv   == ParseFloat(ReplaceComma(Strip(row[3])))
        fee  == ParseFloat(ReplaceComma(Strip(row[4])))
    IN  [Produkt |-> Strip(row[1]),
         ISIN    |-> isin,
         Gewinn  |-> gv,
         Gebuehr |-> fee,
         Land    |-> Prefix2(isin),
         GV      |-> gv.v - fee.v]

\* df[mask]['G/V'].sum()
RECURSIVE SumGV(_, _)
SumGV(df, keep) ==
    IF df = <<>> THEN 0
    ELSE (IF Head(df) \in keep THEN Head(df).GV ELSE 0) + SumGV(Tail(df), keep)

IsPositive(r) == r.GV > 0

\* the comparison of the positive bucket used for the negative one
IsNegative_Flipped(r) == r.GV > 0

IsNegative(r) == r.GV < 0

RealizedResult(kind, error, df) ==
    [kind |-> kind, exc |-> error, df |-> df,
     positive_entries      |-> SumGV(df, {r \in Rows(df) : IsPositive(r)}),
     negative_entries      |-> SumGV(df, {r \in Rows(df) : IsNegative(r)}),
     positive_entries_de   |-> SumGV(df, {r \in Rows(df) : IsPositive(r) /\ IsDomestic(r)}),
     negative_entries_de   |-> SumGV(df, {r \in Rows(df) : IsNegative(r) /\ IsDomestic(r)}),
     positive_entries_ausl |-> SumGV(df, {r \in Rows(df) : IsPositive(r) /\ IsForeign(r)}),
     negative_entries_ausl |-> SumGV(df, {r \in Rows(df) : IsNegative(r) /\ IsForeign(r)})]

extract_realized_profits_and_fees(text) ==
    LET m    == SectionSearch(text)
        rows == FindAll(m.group, 1)
        df   == [k \in 1..Len(rows) |-> ProfitRow(rows[k])]
    IN  IF ~m.found THEN RealizedResult("None", "", <<>>)
        ELSE IF rows = <<>> THEN RealizedResult("raised", "KeyError", <<>>)
        ELSE IF \E k \in 1..Len(df) : ~df[k].Gewinn.ok \/ ~df[k].Gebuehr.ok
             THEN RealizedResult("raised", "ValueError", <<>>)
        ELSE RealizedResult("tuple", "", df)

-----------------------------------------------------------------------------
(* The texts of the model *)

RECURSIVE Concat(_)
Concat(ss) == IF ss = <<>> THEN <<>> ELSE Head(ss) \o Concat(Tail(ss))

\* each line followed by a newline
Lines(ls) == Concat([k \in 1..Len(ls) |-> ls[k] \o <<NL>>])

\* the sequences over S of length at most n
SeqsUpTo(S, n) == UNION {[1..k -> S] : k \in 0..n}

TitleLine == <<"J", "a", "h", "r", SP, "2", "0", "2", "3">>

\* the summary line of the fee: none, the fee, a fee with a thousands
\* separator, and the fee on the line after its label
FeeParts ==
    { <<>>,
      <<FEE_LABEL, SP, "1", "2", ",", "5", "0", SP, "E", "U", "R", NL>>,
      <<FEE_LABEL, SP, "1", ".", "2", "3", "4", ",", "5", "6", SP, "E", "U", "R", NL>>,
      <<FEE_LABEL, NL, "1", "2", ",", "5", "0", SP, "E", "U", "R", NL>> }

\* rows of the realized-gains section: a domestic gain, a domestic loss, a
\* foreign gain, a foreign loss
AcLine == <<"A", "C", SP, "D", "E", "0", "1", SP, "1", "0", ",", "0", "0", SP, "1", ",", "0", "0">>

BoLine == <<"B", "O", SP, "D", "E", "0", "2", SP, "-", "4", ",", "0", "0", SP, "1", ",", "0", "0">>

CoLine == <<"C", "O", SP, "U", "S", "0", "3", SP, "3", ",", "0", "0", SP, "1", ",", "0", "0">>

DyLine == <<"D", "Y", SP, "U", "S", "0", "4", SP, "-", "5", ",", "0", "0", SP, "1", ",", "0", "0">>

RealLines == {AcLine, BoLine, CoLine, DyLine}

\* a line that is no row
StrayLine == <<"S", "u", "m", "m", "e", SP, "3", ",", "0", "0">>

\* a row whose fee equals its gain
EvenLine ==
    <<"E", "V", SP, "U", "S", "0", "5", SP, "1", ",", "0", "0", SP, "1", ",", "0", "0">>

\* a row whose gain has a thousands separator
ThousandsLine ==
    <<"F", "A", SP, "D", "E", "0", "6", SP, "1", ".", "0", "0", "0", ",", "0", "0", SP,
      "1", ",", "0", "0">>

\* sections with a stray line, an even row, a row that does not parse
OddRealSections ==
    { <<StrayLine>>, <<StrayLine, AcLine>>, <<DyLine, StrayLine>>,
      <<EvenLine>>, <<EvenLine, AcLine>>, <<ThousandsLine>> }

\* the section, the section without its start anchor, without its end anchor
RealParts ==
    {<<REAL_START, NL>> \o Lines(ls) \o <<REAL_END, NL>> :
        ls \in SeqsUpTo(RealLines, MaxRealRows) \cup OddRealSections}
    \cup {<<REAL_END, NL>>, <<REAL_START, NL>>}

DeLine ==
    <<"D", "E", SP, "1", "0", ",", "0", "0", SP, "2", ",", "5", "0", SP, "7", ",", "5", "0">>

UsLine ==
    <<"U", "S", SP, "4", ",", "0", "0", SP, "0", ",", "6", "0", SP, "3", ",", "4", "0">>

\* a line of three pieces
ShortLine == <<"D", "E", SP, "6", ",", "0", "0", SP, "1", ",", "5", "0">>

\* a line of five pieces
LongLine ==
    <<"F", "R", SP, "2", ",", "0", "0", SP, "0", ",", "3", "0", SP, "1", ",", "7", "0", SP, "x">>

\* a gross amount with a thousands separator
ThousandsDivLine ==
    <<"U", "S", SP, "1", ".", "0", "0", "0", ",", "0", "0", SP, "1", ",", "0", "0", SP,
      "9", ",", "0", "0">>

\* record lines of the dividend section
DivLines == {DeLine, UsLine, ShortLine}

OddDivSections ==
    { <<LongLine>>, <<DeLine, LongLine>>, <<ThousandsDivLine>>, <<ThousandsDivLine, UsLine>> }

\* the trailing line of the dividend section
TotalLine == <<"S", "u", "m", "m", "e">>

\* the section, the section without its start anchor, without its end anchor
DivParts ==
    {<<DIV_START, NL>> \o Lines(ls \o <<TotalLine>>) \o <<DIV_END, NL>> :
        ls \in SeqsUpTo(DivLines, MaxDivRows) \cup OddDivSections}
    \cup {Lines(<<DeLine, TotalLine>>) \o <<DIV_END, NL>>,
          <<DIV_START, NL>> \o Lines(<<DeLine, TotalLine>>)}

Texts ==
    {Lines(<<TitleLine>>) \o f \o r \o d : f \in FeeParts, r \in RealParts, d \in DivParts}

-----------------------------------------------------------------------------
(* main *)

\* soli_divi = kapitalertragsteuer_divi * 0.055, in thousandths
SOLI_RATE == 55

\* anrechenb_ausl_steuer = dividend_sum_ausl * 0.15, in thousandths
FOREIGN_TAX_RATE == 150

\* dividend_df.loc[dividend_df["Land"] == "DE"]["Quellensteuer"].sum()
Kapitalertragsteuer(d) ==
    SumCells(d.df, "Quellensteuer", {r \in Rows(d.df) : IsDomestic(r)})

Kapitalertraege(d, g) == d.dividend_sum_de + g.positive_entries_de

\* the foreign gains counted once
KapitalertraegeAusl_Single(d, g, fee) ==
    g.positive_entries_ausl + g.negative_entries_ausl + d.dividend_sum_ausl - fee

KapitalertraegeAusl(d, g, fee) ==
    g.positive_entries_ausl + g.negative_entries_ausl + d.dividend_sum_ausl
    + g.positive_entries_ausl - fee

KapitalertraegeDe(d, g) ==
    g.positive_entries_de + g.negative_entries_de + d.dividend_sum_de

\* the rows of anlage_kap; Betrag_num in thousandths of a hundredth (the
\* columns Beschreibung and Betrag, a fixed text and the two-digit rendering
\* of Betrag_num, are left out)
TaxRows(d, g, fee) ==
    << [Zeile |-> "7",  Betrag_num |-> 1000 * Kapitalertraege(d, g)],
       [Zeile |-> "8",  Betrag_num |-> 1000 * g.positive_entries],
       [Zeile |-> "12", Betrag_num |-> 1000 * g.negative_entries],
       [Zeile |-> "18", Betrag_num |-> 1000 * KapitalertraegeDe(d, g)],
       [Zeile |-> "19", Betrag_num |-> 1000 * KapitalertraegeAusl(d, g, fee)],
       [Zeile |-> "20", Betrag_num |-> 1000 * g.positive_entries_ausl],
       [Zeile |-> "23", Betrag_num |-> 1000 * g.negative_entries_ausl],
       [Zeile |-> "37", Betrag_num |-> 1000 * Kapitalertragsteuer(d)],
       [Zeile |-> "38", Betrag_num |-> SOLI_RATE * Kapitalertragsteuer(d)],
       [Zeile |-> "41", Betrag_num |-> FOREIGN_TAX_RATE * d.dividend_sum_ausl] >>

Unset == "unset"

Init ==
    /\ raw_text = <<>>
    /\ pc = "read"
    /\ outcome = "running"
    /\ exc = ""
    /\ log = {}
    /\ transaktionsgebuehren = 0
    /\ div_result = [NoDividends EXCEPT !.logged = Unset]
    /\ real_result = RealizedResult(Unset, "", <<>>)
    /\ tax_rows = <<>>
    /\ sinkCalls = 0
    /\ fileWritten = FALSE

\* main returns
Return ==
    /\ pc' = "done"
    /\ outcome' = "returned"
    /\ exc' = ""

\* the exception caught and logged inside main, which goes on to the save
Raise_Swallowed(e) ==
    /\ pc' = "save"
    /\ outcome' = "running"
    /\ exc' = e

\* an exception leaves main
Raise(e) ==
    /\ pc' = "done"
    /\ outcome' = "raised"
    /\ exc' = e

\* extract_text_from_pdf reads the pages: the text of the document, which
\* is empty when no page has text
ReadPdf ==
    /\ pc = "read"
    /\ \E t \in Texts \cup {<<>>} : raw_text' = t
    /\ pc' = "check"
    /\ UNCHANGED <<outcome, exc, log, transaktionsgebuehren, div_result,
                   real_result, tax_rows, sinkCalls, fileWritten>>

\* extract_text_from_pdf cannot read the file
ReadPdfFails ==
    /\ pc = "read"
    /\ raw_text' = <<>>
    /\ log' = log \cup {"ERROR Error reading PDF"}
    /\ pc' = "check"
    /\ UNCHANGED <<outcome, exc, transaktionsgebuehren, div_result,
                   real_result, tax_rows, sinkCalls, fileWritten>>

\* if not raw_text: return
CheckText ==
    /\ pc = "check"
    /\ IF raw_text = <<>>
       THEN /\ log' = log \cup {"ERROR No text extracted from PDF"}
            /\ Return
       ELSE /\ pc' = "fee"
            /\ UNCHANGED <<log, outcome, exc>>
    /\ UNCHANGED <<raw_text, transaktionsgebuehren, div_result, real_result,
                   tax_rows, sinkCalls, fileWritten>>

ExtractFee ==
    /\ pc = "fee"
    /\ LET r == extract_transaction_fee(raw_text)
       IN  IF r.raised
           THEN /\ Raise("ValueError")
                /\ UNCHANGED transaktionsgebuehren
           ELSE /\ transaktionsgebuehren' = r.fee
                /\ pc' = "dividends"
                /\ UNCHANGED <<outcome, exc>>
    /\ UNCHANGED <<raw_text, log, div_result, real_result, tax_rows, sinkCalls,
                   fileWritten>>

\* the call, and the unpacking of its result into four names: an empty
\* DataFrame gives none
ExtractDividends ==
    /\ pc = "dividends"
    /\ LET r == extract_dividend_table(raw_text)
       IN  /\ div_result' = r
           /\ log' = IF r.logged = "warning"
                        THEN log \cup {"WARNING Dividend table not found in text"}
                     ELSE IF r.logged = "error"
                        THEN log \cup {"ERROR Error extracting dividend table"}
                     ELSE log
           /\ IF r.ok
              THEN pc' = "realized" /\ UNCHANGED <<outcome, exc>>
              ELSE Raise("ValueError")
    /\ UNCHANGED <<raw_text, transaktionsgebuehren, real_result, tax_rows,
                   sinkCalls, fileWritten>>

\* the call, and the unpacking of its result into seven names: None gives
\* none
ExtractRealized ==
    /\ pc = "realized"
    /\ LET r == extract_realized_profits_and_fees(raw_text)
       IN  /\ real_result' = r
           /\ IF r.kind = "tuple"
              THEN pc' = "formulas" /\ UNCHANGED <<outcome, exc>>
              ELSE IF r.kind = "None" THEN Raise("TypeError")
              ELSE Raise(r.exc)
    /\ UNCHANGED <<raw_text, log, transaktionsgebuehren, div_result, tax_rows,
                   sinkCalls, fileWritten>>

ComputeFormulas ==
    /\ pc = "formulas"
    /\ tax_rows' = TaxRows(div_result, real_result, transaktionsgebuehren)
    /\ pc' = "save"
    /\ UNCHANGED <<raw_text, outcome, exc, log, transaktionsgebuehren,
                   div_result, real_result, sinkCalls, fileWritten>>

\* save_to_excel, the last statement of main: to_excel writes the file or
\* raises, and the exception is logged
SaveToExcel ==
    /\ pc = "save"
    /\ sinkCalls' = sinkCalls + 1
    /\ \E written \in BOOLEAN :
          /\ fileWritten' = written
          /\ log' = log \cup {IF written THEN "INFO Data successfully saved"
                              ELSE "ERROR Failed to save Excel file"}
    /\ Return
    /\ UNCHANGED <<raw_text, transaktionsgebuehren, div_result, real_result,
                   tax_rows>>

Next ==
    \/ ReadPdf
    \/ ReadPdfFails
    \/ CheckText
    \/ ExtractFee
    \/ ExtractDividends
    \/ ExtractRealized
    \/ ComputeFormulas
    \/ SaveToExcel

Spec == Init /\ [][Next]_vars

-----------------------------------------------------------------------------
(* Properties *)

RECURSIVE SeqSum(_)
SeqSum(xs) == IF xs = <<>> THEN 0 ELSE xs[Len(xs)] + SeqSum(SubSeq(xs, 1, Len(xs) - 1))

\* main ran to its last statement
Completed == pc = "done" /\ sinkCalls = 1

SixSumsZero(g) ==
    /\ g.positive_entries = 0 /\ g.negative_entries = 0
    /\ g.positive_entries_de = 0 /\ g.negative_entries_de = 0
    /\ g.positive_entries_ausl = 0 /\ g.negative_entries_ausl = 0

\* C1: a run on a text whose dividend section is well-formed and whose
\* realized-gains section is absent does not abort: it reaches the sink with
\* ten report lines, and the six realized-gain sums are 0.
C1_MissingRealizedSectionCompletes ==
    (pc = "done" /\ div_result.ok /\ ~SectionSearch(raw_text).found)
        => /\ outcome = "returned"
           /\ sinkCalls = 1
           /\ Len(tax_rows) = 10
           /\ SixSumsZero(real_result)

\* C2: a run on a non-empty text whose dividend section is not found goes on
\* with an empty dividend record set and completes instead of aborting.
C2_MissingDividendSectionCompletes ==
    (pc = "done" /\ raw_text # <<>> /\ div_result.logged = "warning")
        => /\ outcome = "returned"
           /\ sinkCalls = 1
           /\ div_result.dividend_sum = 0
           /\ Kapitalertragsteuer(div_result) = 0

\* the record lines of the dividend section of the text
RecordLines(text) == DiviData(Strip(DividendSearch(text).group))

\* C3: when a record line of the dividend section splits into a number of
\* pieces other than four, extract_dividend_table fails the extraction: it
\* logs an error and returns no records and no sums, and no returned table
\* holds a record with missing fields.
C3_MalformedRowFailsExtraction ==
    (/\ div_result.logged # Unset
     /\ DividendSearch(raw_text).found
     /\ \E k \in 1..Len(RecordLines(raw_text)) : Len(RecordLines(raw_text)[k]) # 4)
        => /\ ~div_result.ok
           /\ div_result.logged = "error"
           /\ div_result.df = <<>>

C5_WriteFailureSurfaced ==
    (Completed /\ ~fileWritten) => outcome # "returned"

LineIds == <<"7", "8", "12", "18", "19", "20", "23", "37", "38", "41">>

\* the withholding tax of the domestic records, NaN skipped
DomesticWithholding(df) ==
    SeqSum([k \in 1..Len(df) |->
               IF df[k].Land = <<"D", "E">> /\ ~df[k].Quellensteuer.nan
               THEN df[k].Quellensteuer.v ELSE 0])

\* C6: the report of a completed run is the ten lines 7, 8, 12, 18, 19, 20,
\* 23, 37, 38, 41 in this order, and the amounts of lines 7 to 37 are the
\* formulas over the aggregates (line 19 counts the foreign gains twice and
\* subtracts the fee once).
C6_ReportLinesAndFormulas ==
    Completed =>
        LET d   == div_result
            g   == real_result
            amt == [k \in 1..Len(tax_rows) |-> tax_rows[k].Betrag_num]
        IN  /\ [k \in 1..Len(tax_rows) |-> tax_rows[k].Zeile] = LineIds
            /\ amt[1] = 1000 * (d.dividend_sum_de + g.positive_entries_de)
            /\ amt[2] = 1000 * g.positive_entries
            /\ amt[3] = 1000 * g.negative_entries
            /\ amt[4] = 1000 * (g.positive_entries_de + g.negative_entries_de
                                + d.dividend_sum_de)
            /\ amt[5] = 1000 * (2 * g.positive_entries_ausl + g.negative_entries_ausl
                                + d.dividend_sum_ausl - transaktionsgebuehren)
            /\ amt[6] = 1000 * g.positive_entries_ausl
            /\ amt[7] = 1000 * g.negative_entries_ausl
            /\ amt[8] = 1000 * DomesticWithholding(d.df)

C6_Witness ==
    /\ Completed
    /\ real_result.positive_entries_ausl > 0
    /\ real_result.negative_entries_ausl < 0
    /\ transaktionsgebuehren > 0
    /\ div_result.dividend_sum_ausl > 0
    /\ div_result.dividend_sum_de > 0

\* the gross dividends of the records that satisfy / do not satisfy Land = "DE"
GrossWhere(df, domestic) ==
    SeqSum([k \in 1..Len(df) |->
               IF (df[k].Land = <<"D", "E">>) = domestic /\ ~df[k].Bruttodividende.nan
               THEN df[k].Bruttodividende.v ELSE 0])

\* C7: for the records extract_dividend_table returns, the total of the gross
\* dividends is the domestic sum plus the foreign sum, and a record counts
\* in the domestic sum when its jurisdiction is "DE" and in the foreign sum
\* otherwise.
C7_GrossDividendPartition ==
    div_result.ok =>
        /\ div_result.dividend_sum
              = div_result.dividend_sum_de + div_result.dividend_sum_ausl
        /\ div_result.dividend_sum_de = GrossWhere(div_result.df, TRUE)
        /\ div_result.dividend_sum_ausl = GrossWhere(div_result.df, FALSE)

C7_Witness ==
    /\ div_result.ok
    /\ div_result.dividend_sum_de > 0
    /\ div_result.dividend_sum_ausl > 0

\* realizedGainLoss - transactionFee
NetResult(r) == r.Gewinn.v - r.Gebuehr.v

\* the first two characters of the ISIN
Jurisdiction(r) == [i \in 1..(IF Len(r.ISIN) < 2 THEN Len(r.ISIN) ELSE 2) |-> r.ISIN[i]]

\* the net results of sign sgn (1, -1) of the records of the jurisdictions
\* in where ("all", "domestic", "foreign")
NetWhere(df, sgn, where) ==
    SeqSum([k \in 1..Len(df) |->
               IF /\ sgn * NetResult(df[k]) > 0
                  /\ \/ where = "all"
                     \/ where = "domestic" /\ Jurisdiction(df[k]) = <<"D", "E">>
                     \/ where = "foreign" /\ Jurisdiction(df[k]) # <<"D", "E">>
               THEN NetResult(df[k]) ELSE 0])

\* C8: over the realized-gain records, the positive sums are >= 0 and the
\* negative sums are <= 0; a record counts in a positive sum only with a net
\* result > 0 and in a negative sum only with a net result < 0, overall and
\* in the domestic and the foreign split, the jurisdiction being the first
\* two characters of the ISIN.
C8_NetResultBuckets ==
    real_result.kind = "tuple" =>
        LET g == real_result
        IN  /\ g.positive_entries >= 0 /\ g.negative_entries <= 0
            /\ g.positive_entries_de >= 0 /\ g.negative_entries_de <= 0
            /\ g.positive_entries_ausl >= 0 /\ g.negative_entries_ausl <= 0
            /\ g.positive_entries = NetWhere(g.df, 1, "all")
            /\ g.negative_entries = NetWhere(g.df, -1, "all")
            /\ g.positive_entries_de = NetWhere(g.df, 1, "domestic")
            /\ g.negative_entries_de = NetWhere(g.df, -1, "domestic")
            /\ g.positive_entries_ausl = NetWhere(g.df, 1, "foreign")
            /\ g.negative_entries_ausl = NetWhere(g.df, -1, "foreign")

C8_Witness ==
    /\ real_result.kind = "tuple"
    /\ \E r \in Rows(real_result.df) : NetResult(r) = 0
    /\ real_result.positive_entries_de > 0

\* C9: on every text extract_transaction_fee yields a value >= 0, and the
\* value is 0 when the fee pattern does not match.
C9_FeeIsNonNegativeValue ==
    (raw_text # <<>> /\ pc \notin {"read", "check", "fee"})
        => /\ ~extract_transaction_fee(raw_text).raised
           /\ transaktionsgebuehren >= 0
           /\ ~FeeSearch(raw_text).found => transaktionsgebuehren = 0

\* C10: when the realized-gains section is present and none of its lines
\* matches the row shape, extract_realized_profits_and_fees completes with
\* no records and the six sums 0.
C10_NoMatchingRowCompletes ==
    (/\ real_result.kind # Unset
     /\ SectionSearch(raw_text).found
     /\ FindAll(SectionSearch(raw_text).group, 1) = <<>>)
        => /\ real_result.kind = "tuple"
           /\ real_result.df = <<>>
           /\ SixSumsZero(real_result)

====
